---- MODULE Spec2Model ----
(***************************************************************************)
(* Model of the two teaching scripts                                       *)
(*   201_Logistic_Regression_Basic.py     (script = 201)                   *)
(*   204_Classification_Tree_Advanced.py  (script = 204)                   *)
(* Each script is a straight-line program; pc is the line of the next      *)
(* statement.  A row of the data file is a record [id, val, na]: its       *)
(* index, its class label and whether one of its feature cells is missing. *)
(* Feature values are abstracted away: a fitted model's predictions on the *)
(* test rows are a nondeterministic choice among the classes it saw.       *)
(***************************************************************************)
EXTENDS Integers, Sequences, FiniteSets, TLC

VARIABLES script, pc, status, file, df, X, y,
          X_train, X_test, y_train, y_test,
          ohe_enc, clf, n_clf, tree_of,
          y_pred, y_pred_class, y_pred_prob,
          conf_matrix, scores,
          depth, accuracy, accuracy_scores,
          max_accuracy, max_accuracy_idx, optimal_depth,
          calls, deps

vars == <<script, pc, status, file, df, X, y,
          X_train, X_test, y_train, y_test,
          ohe_enc, clf, n_clf, tree_of,
          y_pred, y_pred_class, y_pred_prob,
          conf_matrix, scores,
          depth, accuracy, accuracy_scores,
          max_accuracy, max_accuracy_idx, optimal_depth,
          calls, deps>>

----------------------------------------------------------------------------
(* Bounds of the model *)

\* largest number of rows in the data file
MaxRows == 8
\* largest number of rows with a missing cell
MaxNa == 1
\* trees fitted on the same rows with max_depth >= MaxGrow are the same tree
MaxGrow == 2

(* Program constants *)

\* test_size = 0.2 = TestNum / TestDen
TestNum == 1
TestDen == 5
\* DecisionTreeClassifier(random_state = 42, max_depth = 5)
FirstDepth == 5
\* range(1,15)
RangeLo == 1
RangeHi == 15
\* the class the binary metrics count as positive
PosLabel == 1

Classes == {0, 1}
Scripts == {201, 204}
None == <<>>

----------------------------------------------------------------------------
(* Generic helpers *)

Min(a, b) == IF a < b THEN a ELSE b

RECURSIVE GCD(_, _)
GCD(a, b) == IF b = 0 THEN a ELSE GCD(b, a % b)

RECURSIVE SumOver(_, _)
SumOver(f, S) ==
  IF S = {} THEN 0
  ELSE LET c == CHOOSE c \in S : TRUE IN f[c] + SumOver(f, S \ {c})

\* the elements of a finite set of integers in ascending order
RECURSIVE SortedSeq(_)
SortedSeq(S) ==
  IF S = {} THEN <<>>
  ELSE LET m == CHOOSE m \in S : \A o \in S : m <= o
       IN <<m>> \o SortedSeq(S \ {m})

Reverse(s) == [i \in 1..Len(s) |-> s[Len(s) + 1 - i]]

Range(s) == {s[i] : i \in 1..Len(s)}

\* the row indices held by a frame (sequence of ids) or a series
Ids(s) == {s[i] : i \in 1..Len(s)}
SeriesIds(s) == {s[i].id : i \in 1..Len(s)}
Values(s) == [i \in 1..Len(s) |-> s[i].val]

\* the permutations the random generators may draw
Perms == {"id", "rev"}
Permute(s, p) == IF p = "rev" THEN Reverse(s) ELSE s

\* a floating point quotient, as an exact reduced fraction <<num, den>>
Frac(n, d) == LET g == GCD(n, d) IN <<n \div g, d \div g>>

----------------------------------------------------------------------------
(* The data files the scripts may be run on *)

NaSets(n) == {S \in SUBSET ({1, n} \cap (1..n)) : Cardinality(S) <= MaxNa}

Files ==
  UNION {
    { [i \in 1..n |-> [id |-> i, val |-> IF i <= k THEN 0 ELSE 1, na |-> i \in S]]
        : k \in 0..n, S \in NaSets(n) }
    : n \in 0..MaxRows }

----------------------------------------------------------------------------
(* sklearn.model_selection.train_test_split(X, y, test_size = 0.2,         *)
(* random_state = 42, stratify = y), as called at 201:24 and 204:63.       *)

\* n_test = ceil(test_size * n)
NTest(n) == (n * TestNum + TestDen - 1) \div TestDen
NTrain(n) == n - NTest(n)

ClassesOf(ya) == Range(Values(ya))
ClassCount(ya, c) == Cardinality({i \in 1..Len(ya) : ya[i].val = c})

\* the numbers of rows of each class drawn when n_draws rows are drawn from
\* classes holding counts[c] rows: proportional, rounded down, the rows
\* still missing going to the largest remainders, ties broken at random
ApproximateMode(counts, n_draws) ==
  LET cs      == DOMAIN counts
      total   == SumOver(counts, cs)
      floored == [c \in cs |-> (counts[c] * n_draws) \div total]
      rem     == [c \in cs |-> (counts[c] * n_draws) % total]
      need    == n_draws - SumOver(floored, cs)
      adds    == {S \in SUBSET cs :
                    /\ Cardinality(S) = need
                    /\ \A a \in S, b \in cs \ S : rem[a] >= rem[b]}
  IN {[c \in cs |-> floored[c] + (IF c \in S THEN 1 ELSE 0)] : S \in adds}

\* positions of the rows of class c, ascending
ClassPos(ya, c) == SortedSeq({i \in 1..Len(ya) : ya[i].val = c})

\* the split made with the class allocations n_i (train) and t_i (test), the
\* permutation p1 of each class's rows and the permutation p2 of each subset
\* (train_test_split draws both from one generator: the model lets it draw
\* the same member of Perms for both)
SplitWith(Xa, ya, n_i, t_i, p1, p2) ==
  LET cs      == DOMAIN n_i
      perm(c) == Permute(ClassPos(ya, c), p1)
      trainP  == UNION {{perm(c)[k] : k \in 1..n_i[c]} : c \in cs}
      testP   == UNION {{perm(c)[k] : k \in (n_i[c] + 1)..(n_i[c] + t_i[c])} : c \in cs}
      tr      == Permute(SortedSeq(trainP), p2)
      te      == Permute(SortedSeq(testP), p2)
  IN << [k \in 1..Len(tr) |-> Xa[tr[k]]],
        [k \in 1..Len(te) |-> Xa[te[k]]],
        [k \in 1..Len(tr) |-> ya[tr[k]]],
        [k \in 1..Len(te) |-> ya[te[k]]] >>

\* the 4-tuples <<X_train, X_test, y_train, y_test>> the call may return;
\* the empty set when it raises ValueError
train_test_split(Xa, ya) ==
  LET n       == Len(Xa)
      cs      == ClassesOf(ya)
      counts  == [c \in cs |-> ClassCount(ya, c)]
  IN IF \/ n = 0
        \/ NTrain(n) = 0
        \/ \E c \in cs : counts[c] < 2
        \/ NTrain(n) < Cardinality(cs)
        \/ NTest(n) < Cardinality(cs)
     THEN {}
     ELSE UNION {
            { SplitWith(Xa, ya, n_i, t_i, p, p)
                : t_i \in ApproximateMode([c \in cs |-> counts[c] - n_i[c]], NTest(n)),
                  p \in Perms }
            : n_i \in ApproximateMode(counts, NTrain(n)) }

\* 201:24 and 204:63 bind the four results, in this order
UnpackSwappedY(r) ==
  [X_train |-> r[1], X_test |-> r[2], y_train |-> r[4], y_test |-> r[3]]
Unpack(r) ==
  [X_train |-> r[1], X_test |-> r[2], y_train |-> r[3], y_test |-> r[4]]

----------------------------------------------------------------------------
(* sklearn.metrics, as called by the scripts *)

\* whether a row with true label a and predicted label b is of the kind counted
Counted(kind, a, b) ==
  CASE kind = "same"   -> a = b
    [] kind = "differ" -> a # b
    [] kind = "tp"     -> a = PosLabel /\ b = PosLabel
    [] kind = "fp"     -> a # PosLabel /\ b = PosLabel
    [] kind = "fn"     -> a = PosLabel /\ b # PosLabel

\* number of rows of the kind, counted row by row from row k on
RECURSIVE CountFrom(_, _, _, _)
CountFrom(kind, yt, yp, k) ==
  IF k > Len(yt) THEN 0
  ELSE (IF Counted(kind, yt[k], yp[k]) THEN 1 ELSE 0) + CountFrom(kind, yt, yp, k + 1)

\* labels of the matrix: the sorted distinct values of y_true and y_pred
UniqueLabels(yt, yp) == SortedSeq(Range(yt) \cup Range(yp))

IndexOf(s, v) == (CHOOSE i \in 1..Len(s) : s[i] = v) - 1

\* the matrix, accumulated one row of the data at a time
RECURSIVE Accumulate(_, _, _, _, _)
Accumulate(m, labs, rowv, colv, k) ==
  IF k > Len(rowv) THEN m
  ELSE Accumulate([m EXCEPT ![<<IndexOf(labs, rowv[k]), IndexOf(labs, colv[k])>>] = @ + 1],
                  labs, rowv, colv, k + 1)

\* confusion_matrix(y_true, y_pred): [<<i, j>>] indexed from 0
confusion_matrix_T(yt, yp) ==
  LET labs == UniqueLabels(yt, yp)
      n    == Len(labs)
  IN Accumulate([ij \in (0..(n - 1)) \X (0..(n - 1)) |-> 0], labs, yp, yt, 1)
confusion_matrix(yt, yp) ==
  LET labs == UniqueLabels(yt, yp)
      n    == Len(labs)
  IN Accumulate([ij \in (0..(n - 1)) \X (0..(n - 1)) |-> 0], labs, yt, yp, 1)

\* accuracy_score(y_true, y_pred): the mean of y_true == y_pred
accuracy_score_errors(yt, yp) == Frac(CountFrom("differ", yt, yp, 1), Len(yt))
accuracy_score(yt, yp) == Frac(CountFrom("same", yt, yp, 1), Len(yt))

TP(yt, yp) == CountFrom("tp", yt, yp, 1)
FP(yt, yp) == CountFrom("fp", yt, yp, 1)
FN(yt, yp) == CountFrom("fn", yt, yp, 1)

\* a quotient with zero_division = "warn": 0.0 when the denominator is 0
Divide(n, d) == IF d = 0 THEN <<0, 1>> ELSE Frac(n, d)

precision_score(yt, yp) == Divide(TP(yt, yp), TP(yt, yp) + FP(yt, yp))
recall_score_fp(yt, yp) == Divide(TP(yt, yp), TP(yt, yp) + FP(yt, yp))
recall_score(yt, yp) == Divide(TP(yt, yp), TP(yt, yp) + FN(yt, yp))
f1_score(yt, yp) ==
  Divide(2 * TP(yt, yp), 2 * TP(yt, yp) + FP(yt, yp) + FN(yt, yp))

----------------------------------------------------------------------------
(* State shared by the two scripts *)

\* a classifier object
NoClf == [id |-> 0, kind |-> "none", max_depth |-> 0, fitted |-> FALSE,
          rows |-> {}, classes |-> {}]
NewClf(i, k, d) == [id |-> i, kind |-> k, max_depth |-> d, fitted |-> FALSE,
                    rows |-> {}, classes |-> {}]

\* where a value comes from: the rows and the fitted classifiers it was computed from
NoDeps == [rows |-> {}, models |-> {}]
Names == {"ohe_enc", "clf", "y_pred", "y_pred_class", "y_pred_prob", "conf_matrix",
          "accuracy_score", "precision_score", "recall_score", "f1_score",
          "accuracy", "accuracy_scores", "max_accuracy", "optimal_depth"}
Join(a, b) == [rows |-> a.rows \cup b.rows, models |-> a.models \cup b.models]
FromRows(S) == [rows |-> S, models |-> {}]

\* one library call of the run: what was called, on which classifier object
\* (NoClf when on none), the rows of the data passed, the classifiers whose
\* output was passed, and the step of the script the call belongs to
Call(op, c, rows, models, phase) ==
  [op |-> op, obj |-> c.id, max_depth |-> c.max_depth, rows |-> rows,
   models |-> models, phase |-> phase]

HasNa(ids) == \E i \in ids : file[i].na

Init ==
  /\ script \in Scripts
  /\ file \in Files
  /\ pc = IF script = 201 THEN 15 ELSE 28
  /\ status = "running"
  /\ df = <<>> /\ X = <<>> /\ y = <<>>
  /\ X_train = <<>> /\ X_test = <<>> /\ y_train = <<>> /\ y_test = <<>>
  /\ ohe_enc = [fitted |-> FALSE, rows |-> {}, applied |-> {}]
  /\ clf = NoClf
  /\ n_clf = 0
  /\ tree_of = [k \in 1..MaxGrow |-> None]
  /\ y_pred = None /\ y_pred_class = None /\ y_pred_prob = None
  /\ conf_matrix = None
  /\ scores = [m \in {"accuracy_score", "precision_score", "recall_score", "f1_score"} |-> None]
  /\ depth = 0
  /\ accuracy = None
  /\ accuracy_scores = <<>>
  /\ max_accuracy = None /\ max_accuracy_idx = -1 /\ optimal_depth = 0
  /\ calls = <<>>
  /\ deps = [nm \in Names |-> NoDeps]

dataVars  == <<df, X, y>>
splitVars == <<X_train, X_test, y_train, y_test>>
modelVars == <<ohe_enc, clf, n_clf, tree_of>>
predVars  == <<y_pred, y_pred_class, y_pred_prob>>
evalVars  == <<conf_matrix, scores>>
loopVars  == <<depth, accuracy, accuracy_scores, max_accuracy, max_accuracy_idx, optimal_depth>>

At(s, line) == script = s /\ status = "running" /\ pc = line
Goto(line) == pc' = line /\ status' = "running" /\ UNCHANGED <<script, file>>
Finish == pc' = pc /\ status' = "done" /\ UNCHANGED <<script, file>>
\* an exception ends the run
Raise == /\ pc' = pc /\ status' = "error"
         /\ UNCHANGED <<script, file, dataVars, splitVars, modelVars, predVars,
                        evalVars, loopVars, calls, deps>>
Log(c) == calls' = Append(calls, c)
Dep(nm, d) == deps' = [deps EXCEPT ![nm] = d]

\* X = frame.drop([target], axis = 1); y = frame[target]
InputOutput(frame) ==
  /\ X' = [i \in 1..Len(frame) |-> frame[i].id]
  /\ y' = [i \in 1..Len(frame) |-> [id |-> frame[i].id, val |-> frame[i].val]]
  /\ df' = df

\* X_train, X_test, y_train, y_test = train_test_split(X, y, ...)
Split ==
  /\ train_test_split(X, y) # {}
  /\ \E r \in train_test_split(X, y) :
       /\ X_train' = Unpack(r).X_train
       /\ X_test'  = Unpack(r).X_test
       /\ y_train' = Unpack(r).y_train
       /\ y_test'  = Unpack(r).y_test
  /\ Log(Call("train_test_split", NoClf, Ids(X) \cup SeriesIds(y), {}, "split"))

\* the rows a classifier is fitted on
FitArgsTest == [X |-> X_test, y |-> y_test]
FitArgs == [X |-> X_train, y |-> y_train]

\* clf.fit(X_train, y_train)
Fit ==
  LET a == FitArgs
      d == FromRows(Ids(a.X) \cup SeriesIds(a.y))
  IN /\ clf' = [clf EXCEPT !.fitted = TRUE, !.rows = Ids(a.X),
                           !.classes = ClassesOf(a.y)]
     /\ Log(Call("fit", clf, d.rows, {}, "fit"))
     /\ Dep("clf", [rows |-> d.rows, models |-> {clf.id}])

\* the rows a classifier is asked to predict
PredictArg == X_test

\* the label vectors clf.predict(X_test) may return: one of the classes seen in
\* fit for each row.  A tree is a function of its training rows and max_depth
\* (random_state is fixed), so a depth predicted before predicts the same again.
Key(c) == Min(c.max_depth, MaxGrow)
Predictions(c, Xt) ==
  IF c.kind = "DecisionTreeClassifier" /\ tree_of[Key(c)] # None
  THEN {tree_of[Key(c)]}
  ELSE [1..Len(Xt) -> c.classes]
Remember(c, v) ==
  tree_of' = IF c.kind = "DecisionTreeClassifier"
             THEN [tree_of EXCEPT ![Key(c)] = v] ELSE tree_of

PredDeps(Xt) == Join(deps["clf"], FromRows(Ids(Xt)))

----------------------------------------------------------------------------
(* 201_Logistic_Regression_Basic.py *)

\* 15: my_df = pd.read_csv(...)
Read201 ==
  /\ At(201, 15)
  /\ df' = file /\ UNCHANGED <<X, y>>
  /\ Log(Call("read_csv", NoClf, {file[i].id : i \in 1..Len(file)}, {}, "read"))
  /\ Goto(19)
  /\ UNCHANGED <<splitVars, modelVars, predVars, evalVars, loopVars, deps>>

\* 19-20: X = my_df.drop(["output"], axis = 1); y = my_df["output"]
InputOutput201 ==
  /\ At(201, 19)
  /\ InputOutput(df)
  /\ Goto(24)
  /\ UNCHANGED <<splitVars, modelVars, predVars, evalVars, loopVars, calls, deps>>

\* 24: train_test_split
Split201 ==
  /\ At(201, 24)
  /\ \/ /\ Split
        /\ Goto(28)
        /\ UNCHANGED <<dataVars, modelVars, predVars, evalVars, loopVars, deps>>
     \/ /\ train_test_split(X, y) = {}
        /\ Raise

\* 28: clf = LogisticRegression(random_state = 42)
New201 ==
  /\ At(201, 28)
  /\ clf' = NewClf(n_clf + 1, "LogisticRegression", 0)
  /\ n_clf' = n_clf + 1
  /\ Goto(32)
  /\ UNCHANGED <<dataVars, splitVars, ohe_enc, tree_of, predVars, evalVars, loopVars,
                 calls, deps>>

\* 32: clf.fit(X_train, y_train); raises ValueError on a missing cell or
\* when y_train holds a single class
Fit201 ==
  /\ At(201, 32)
  /\ \/ /\ ~HasNa(Ids(FitArgs.X))
        /\ Cardinality(ClassesOf(FitArgs.y)) >= 2
        /\ Fit
        /\ Goto(36)
        /\ UNCHANGED <<dataVars, splitVars, ohe_enc, n_clf, tree_of, predVars, evalVars,
                       loopVars>>
     \/ /\ HasNa(Ids(FitArgs.X)) \/ Cardinality(ClassesOf(FitArgs.y)) < 2
        /\ Raise

\* 36: y_pred = clf.predict(X_test); raises ValueError on a missing cell
Predict201 ==
  /\ At(201, 36)
  /\ \/ /\ ~HasNa(Ids(PredictArg))
        /\ \E v \in Predictions(clf, PredictArg) :
             /\ y_pred' = v
             /\ Remember(clf, v)
        /\ Log(Call("predict", clf, Ids(PredictArg), {clf.id}, "score"))
        /\ Dep("y_pred", PredDeps(PredictArg))
        /\ Goto(37)
        /\ UNCHANGED <<dataVars, splitVars, ohe_enc, clf, n_clf, y_pred_class, y_pred_prob,
                       evalVars, loopVars>>
     \/ /\ HasNa(Ids(PredictArg))
        /\ Raise

\* 37: accuracy_score(y_test, y_pred)
Accuracy201 ==
  /\ At(201, 37)
  /\ LET d == Join(FromRows(SeriesIds(y_test)), deps["y_pred"])
     IN /\ scores' = [scores EXCEPT !["accuracy_score"] = accuracy_score(Values(y_test), y_pred)]
        /\ Log(Call("accuracy_score", NoClf, SeriesIds(y_test), deps["y_pred"].models, "score"))
        /\ Dep("accuracy_score", d)
  /\ Goto(39)
  /\ UNCHANGED <<dataVars, splitVars, modelVars, predVars, conf_matrix, loopVars>>

\* 39: y_pred_prob = clf.predict_proba(X_test); the probabilities themselves
\* are abstracted: one entry per row scored
Proba201 ==
  /\ At(201, 39)
  /\ y_pred_prob' = [i \in 1..Len(PredictArg) |-> "p"]
  /\ Log(Call("predict_proba", clf, Ids(PredictArg), {clf.id}, "score"))
  /\ Dep("y_pred_prob", PredDeps(PredictArg))
  /\ Goto(43)
  /\ UNCHANGED <<dataVars, splitVars, modelVars, y_pred, y_pred_class, evalVars, loopVars>>

\* 43-44: conf_matrix = confusion_matrix(y_test, y_pred); print(conf_matrix)
ConfMatrix201 ==
  /\ At(201, 43)
  /\ LET d == Join(FromRows(SeriesIds(y_test)), deps["y_pred"])
     IN /\ conf_matrix' = confusion_matrix(Values(y_test), y_pred)
        /\ calls' = calls \o << Call("confusion_matrix", NoClf, SeriesIds(y_test),
                                     deps["y_pred"].models, "score"),
                                Call("print", NoClf, d.rows, d.models, "score") >>
        /\ Dep("conf_matrix", d)
  /\ Goto(48)
  /\ UNCHANGED <<dataVars, splitVars, modelVars, predVars, scores, loopVars>>

\* 48-56: the confusion matrix plot
Plot201 ==
  /\ At(201, 48)
  /\ Log(Call("plot_conf_matrix", NoClf, deps["conf_matrix"].rows, deps["conf_matrix"].models, "plot"))
  /\ Finish
  /\ UNCHANGED <<dataVars, splitVars, modelVars, predVars, evalVars, loopVars, deps>>

Next201 ==
  \/ Read201 \/ InputOutput201 \/ Split201 \/ New201 \/ Fit201 \/ Predict201
  \/ Accuracy201 \/ Proba201 \/ ConfMatrix201 \/ Plot201

----------------------------------------------------------------------------
(* 204_Classification_Tree_Advanced.py *)

\* 28-32: data_for_model = pickle.load(...); drop customer_id
Read204 ==
  /\ At(204, 28)
  /\ df' = file /\ UNCHANGED <<X, y>>
  /\ Log(Call("pickle_load", NoClf, {file[i].id : i \in 1..Len(file)}, {}, "read"))
  /\ Goto(36)
  /\ UNCHANGED <<splitVars, modelVars, predVars, evalVars, loopVars, deps>>

\* 36-40: data_for_model = shuffle(data_for_model, random_state = 42); value_counts
Shuffle204 ==
  /\ At(204, 36)
  /\ \E p \in Perms : df' = Permute(df, p)
  /\ UNCHANGED <<X, y>>
  /\ Goto(47)
  /\ UNCHANGED <<splitVars, modelVars, predVars, evalVars, loopVars, calls, deps>>

dropna(frame) == SelectSeq(frame, LAMBDA r : ~r.na)

\* 47-48: isna().sum(); data_for_model.dropna(inplace = True)
Dropna204 ==
  /\ At(204, 47)
  /\ df' = dropna(df) /\ UNCHANGED <<X, y>>
  /\ Goto(55)
  /\ UNCHANGED <<splitVars, modelVars, predVars, evalVars, loopVars, calls, deps>>

\* 55-56: X = data_for_model.drop(["signup_flag"], axis = 1); y = data_for_model["signup_flag"]
InputOutput204 ==
  /\ At(204, 55)
  /\ InputOutput(df)
  /\ Goto(63)
  /\ UNCHANGED <<splitVars, modelVars, predVars, evalVars, loopVars, calls, deps>>

\* 63: train_test_split
Split204 ==
  /\ At(204, 63)
  /\ \/ /\ Split
        /\ Goto(70)
        /\ UNCHANGED <<dataVars, modelVars, predVars, evalVars, loopVars, deps>>
     \/ /\ train_test_split(X, y) = {}
        /\ Raise

\* 70-72: ohe_enc = OneHotEncoder(...)
NewEncoder204 ==
  /\ At(204, 70)
  /\ ohe_enc' = [fitted |-> FALSE, rows |-> {}, applied |-> {}]
  /\ Goto(74)
  /\ UNCHANGED <<dataVars, splitVars, clf, n_clf, tree_of, predVars, evalVars, loopVars,
                 calls, deps>>

\* the rows the encoder learns its categories from
EncoderFitArg == X_train

\* 74: X_train = ohe_enc.fit_transform(X_train): the rows are kept, the
\* gender column is replaced by its indicator columns
FitTransform204 ==
  /\ At(204, 74)
  /\ ohe_enc' = [fitted |-> TRUE, rows |-> Ids(EncoderFitArg), applied |-> {"X_train"}]
  /\ X_train' = X_train /\ UNCHANGED <<X_test, y_train, y_test>>
  /\ Log(Call("ohe_fit_transform", NoClf, Ids(EncoderFitArg), {}, "fit"))
  /\ Dep("ohe_enc", FromRows(Ids(EncoderFitArg)))
  /\ Goto(75)
  /\ UNCHANGED <<dataVars, clf, n_clf, tree_of, predVars, evalVars, loopVars>>

\* 75: X_test = ohe_enc.transform(X_test)
Transform204 ==
  /\ At(204, 75)
  /\ ohe_enc' = [ohe_enc EXCEPT !.applied = @ \cup {"X_test"}]
  /\ X_test' = X_test /\ UNCHANGED <<X_train, y_train, y_test>>
  /\ Log(Call("ohe_transform", NoClf, Ids(X_test), {}, "fit"))
  /\ Goto(82)
  /\ UNCHANGED <<dataVars, clf, n_clf, tree_of, predVars, evalVars, loopVars, deps>>

\* 82: clf = DecisionTreeClassifier(random_state = 42, max_depth = 5)
New204 ==
  /\ At(204, 82)
  /\ clf' = NewClf(n_clf + 1, "DecisionTreeClassifier", FirstDepth)
  /\ n_clf' = n_clf + 1
  /\ Goto(83)
  /\ UNCHANGED <<dataVars, splitVars, ohe_enc, tree_of, predVars, evalVars, loopVars,
                 calls, deps>>

\* 83: clf.fit(X_train, y_train)
Fit204 ==
  /\ At(204, 83)
  /\ Fit
  /\ Goto(90)
  /\ UNCHANGED <<dataVars, splitVars, ohe_enc, n_clf, tree_of, predVars, evalVars, loopVars>>

\* 90: y_pred_class = clf.predict(X_test)
Predict204 ==
  /\ At(204, 90)
  /\ \E v \in Predictions(clf, PredictArg) :
       /\ y_pred_class' = v
       /\ Remember(clf, v)
  /\ Log(Call("predict", clf, Ids(PredictArg), {clf.id}, "score"))
  /\ Dep("y_pred_class", PredDeps(PredictArg))
  /\ Goto(91)
  /\ UNCHANGED <<dataVars, splitVars, ohe_enc, clf, n_clf, y_pred, y_pred_prob,
                 evalVars, loopVars>>

\* 91: y_pred_prob = clf.predict_proba(X_test)[:,1]; the result has one column
\* per class seen in fit, so column 1 is an IndexError after a one-class fit
Proba204 ==
  /\ At(204, 91)
  /\ \/ /\ Cardinality(clf.classes) >= 2
        /\ y_pred_prob' = [i \in 1..Len(PredictArg) |-> "p"]
        /\ Log(Call("predict_proba", clf, Ids(PredictArg), {clf.id}, "score"))
        /\ Dep("y_pred_prob", PredDeps(PredictArg))
        /\ Goto(95)
        /\ UNCHANGED <<dataVars, splitVars, modelVars, y_pred, y_pred_class, evalVars,
                       loopVars>>
     \/ /\ Cardinality(clf.classes) < 2
        /\ Raise

\* 95: conf_matrix = confusion_matrix(y_test, y_pred_class)
ConfMatrix204 ==
  /\ At(204, 95)
  /\ LET d == Join(FromRows(SeriesIds(y_test)), deps["y_pred_class"])
     IN /\ conf_matrix' = confusion_matrix(Values(y_test), y_pred_class)
        /\ Log(Call("confusion_matrix", NoClf, SeriesIds(y_test), deps["y_pred_class"].models, "score"))
        /\ Dep("conf_matrix", d)
  /\ Goto(97)
  /\ UNCHANGED <<dataVars, splitVars, modelVars, predVars, scores, loopVars>>

\* 97-105: the confusion matrix plot
Plot204 ==
  /\ At(204, 97)
  /\ Log(Call("plot_conf_matrix", NoClf, deps["conf_matrix"].rows, deps["conf_matrix"].models, "plot"))
  /\ Goto(108)
  /\ UNCHANGED <<dataVars, splitVars, modelVars, predVars, evalVars, loopVars, deps>>

\* a metric of y_test against y_pred_class, evaluated at `line`
Metric204(line, name, value, next) ==
  /\ At(204, line)
  /\ LET d == Join(FromRows(SeriesIds(y_test)), deps["y_pred_class"])
     IN /\ scores' = [scores EXCEPT ![name] = value]
        /\ Log(Call(name, NoClf, SeriesIds(y_test), deps["y_pred_class"].models, "score"))
        /\ Dep(name, d)
  /\ Goto(next)
  /\ UNCHANGED <<dataVars, splitVars, modelVars, predVars, conf_matrix, loopVars>>

\* 108: accuracy_score(y_test, y_pred_class)
Accuracy204 ==
  Metric204(108, "accuracy_score", accuracy_score(Values(y_test), y_pred_class), 111)
\* 111: precision_score(y_test, y_pred_class)
Precision204 ==
  Metric204(111, "precision_score", precision_score(Values(y_test), y_pred_class), 114)
\* 114: recall_score(y_test, y_pred_class)
Recall204 ==
  Metric204(114, "recall_score", recall_score(Values(y_test), y_pred_class), 117)
\* 117: f1_score(y_test, y_pred_class)
F1Score204 ==
  Metric204(117, "f1_score", f1_score(Values(y_test), y_pred_class), 122)

\* 122: max_depth_list = list(range(1,15))
max_depth_list_13 == [i \in 1..(RangeHi - 1 - RangeLo) |-> RangeLo + i - 1]
max_depth_list == [i \in 1..(RangeHi - RangeLo) |-> RangeLo + i - 1]

\* 122-123: max_depth_list = ...; accuracy_scores = []
LoopInit204 ==
  /\ At(204, 122)
  /\ accuracy_scores' = <<>>
  /\ UNCHANGED <<depth, accuracy, max_accuracy, max_accuracy_idx, optimal_depth>>
  /\ Goto(125)
  /\ UNCHANGED <<dataVars, splitVars, modelVars, predVars, evalVars, calls, deps>>

\* the score the search loop records for a depth
LoopScore(yt, yp) == f1_score(yt, yp)

\* 125-130: one iteration of the search loop: a new tree of the next depth is
\* fitted, predicts the test rows, and its F1 score is appended
LoopBody204 ==
  /\ At(204, 125)
  /\ Len(accuracy_scores) < Len(max_depth_list)
  /\ LET d  == max_depth_list[Len(accuracy_scores) + 1]
         c0 == NewClf(n_clf + 1, "DecisionTreeClassifier", d)
         a  == FitArgs
         fd == FromRows(Ids(a.X) \cup SeriesIds(a.y))
         c1 == [c0 EXCEPT !.fitted = TRUE, !.rows = Ids(a.X), !.classes = ClassesOf(a.y)]
         cd == [rows |-> fd.rows, models |-> {c1.id}]
         pd == Join(cd, FromRows(Ids(PredictArg)))
         sd == Join(FromRows(SeriesIds(y_test)), pd)
     IN /\ depth' = d
        /\ clf' = c1
        /\ n_clf' = n_clf + 1
        /\ \E v \in Predictions(c1, PredictArg) :
             /\ y_pred' = v
             /\ Remember(c1, v)
             /\ accuracy' = LoopScore(Values(y_test), v)
             /\ accuracy_scores' = Append(accuracy_scores, LoopScore(Values(y_test), v))
        /\ calls' = calls \o << Call("fit", c1, fd.rows, {}, "fit"),
                                Call("predict", c1, Ids(PredictArg), {c1.id}, "score"),
                                Call("f1_score", NoClf, SeriesIds(y_test), {c1.id}, "score") >>
        /\ deps' = [deps EXCEPT !["clf"] = cd, !["y_pred"] = pd, !["accuracy"] = sd,
                                !["accuracy_scores"] = Join(@, sd)]
  /\ Goto(125)
  /\ UNCHANGED <<dataVars, splitVars, ohe_enc, y_pred_class, y_pred_prob, evalVars,
                 max_accuracy, max_accuracy_idx, optimal_depth>>

\* 125: the list is exhausted
LoopExit204 ==
  /\ At(204, 125)
  /\ Len(accuracy_scores) >= Len(max_depth_list)
  /\ Goto(132)
  /\ UNCHANGED <<dataVars, splitVars, modelVars, predVars, evalVars, loopVars, calls, deps>>

Leq(a, b) == a[1] * b[2] <= b[1] * a[2]

\* max(accuracy_scores)
ListMax(s) == CHOOSE v \in Range(s) : \A w \in Range(s) : Leq(w, v)

\* accuracy_scores.index(v): the first position holding v, counted from 0
ListRIndex(s, v) == (CHOOSE i \in 1..Len(s) : s[i] = v /\ \A j \in (i + 1)..Len(s) : s[j] # v) - 1
ListIndex(s, v) == (CHOOSE i \in 1..Len(s) : s[i] = v /\ \A j \in 1..(i - 1) : s[j] # v) - 1

\* 132: max_accuracy = max(accuracy_scores)
Max204 ==
  /\ At(204, 132)
  /\ max_accuracy' = ListMax(accuracy_scores)
  /\ Dep("max_accuracy", deps["accuracy_scores"])
  /\ UNCHANGED <<depth, accuracy, accuracy_scores, max_accuracy_idx, optimal_depth>>
  /\ Goto(133)
  /\ UNCHANGED <<dataVars, splitVars, modelVars, predVars, evalVars, calls>>

\* 133: max_accuracy_idx = accuracy_scores.index(max_accuracy)
Index204 ==
  /\ At(204, 133)
  /\ max_accuracy_idx' = ListIndex(accuracy_scores, max_accuracy)
  /\ UNCHANGED <<depth, accuracy, accuracy_scores, max_accuracy, optimal_depth>>
  /\ Goto(134)
  /\ UNCHANGED <<dataVars, splitVars, modelVars, predVars, evalVars, calls, deps>>

\* 134: optimal_depth = max_depth_list[max_accuracy_idx]
Optimal204 ==
  /\ At(204, 134)
  /\ optimal_depth' = max_depth_list[max_accuracy_idx + 1]
  /\ Dep("optimal_depth", Join(deps["accuracy_scores"], deps["max_accuracy"]))
  /\ UNCHANGED <<depth, accuracy, accuracy_scores, max_accuracy, max_accuracy_idx>>
  /\ Goto(138)
  /\ UNCHANGED <<dataVars, splitVars, modelVars, predVars, evalVars, calls>>

\* 138-144: the plot of the scores by depth, the optimal depth marked
PlotDepths204 ==
  /\ At(204, 138)
  /\ Log(Call("plot_depths", NoClf, deps["accuracy_scores"].rows,
              deps["accuracy_scores"].models \cup deps["optimal_depth"].models, "plot"))
  /\ Goto(148)
  /\ UNCHANGED <<dataVars, splitVars, modelVars, predVars, evalVars, loopVars, deps>>

\* 148-153: plot_tree(clf, ...)
PlotTree204 ==
  /\ At(204, 148)
  /\ Log(Call("plot_tree", clf, {}, {clf.id}, "plot"))
  /\ Finish
  /\ UNCHANGED <<dataVars, splitVars, modelVars, predVars, evalVars, loopVars, deps>>

Next204 ==
  \/ Read204 \/ Shuffle204 \/ Dropna204 \/ InputOutput204 \/ Split204
  \/ NewEncoder204 \/ FitTransform204 \/ Transform204 \/ New204 \/ Fit204
  \/ Predict204 \/ Proba204 \/ ConfMatrix204 \/ Plot204
  \/ Accuracy204 \/ Precision204 \/ Recall204 \/ F1Score204
  \/ LoopInit204 \/ LoopBody204 \/ LoopExit204
  \/ Max204 \/ Index204 \/ Optimal204 \/ PlotDepths204 \/ PlotTree204

Next == Next201 \/ Next204
Spec == Init /\ [][Next]_vars

----------------------------------------------------------------------------
(* Properties *)

TrainIds == Ids(X_train)
TestIds  == Ids(X_test)
FileIds  == {file[i].id : i \in 1..Len(file)}
CallIdx(ops) == {i \in 1..Len(calls) : calls[i].op \in ops}
SplitDone == CallIdx({"train_test_split"}) # {}

\* the rows the split is given: all rows of the file in script 201, the rows
\* without a missing cell in script 204
GivenRows ==
  IF script = 201 THEN FileIds
  ELSE {file[i].id : i \in {j \in 1..Len(file) : ~file[j].na}}

NoRepeats(s) == Cardinality(Ids(s)) = Len(s)
Pairwise(Xs, ys) ==
  /\ Len(Xs) = Len(ys)
  /\ \A i \in 1..Len(Xs) : ys[i].id = Xs[i] /\ ys[i].val = file[Xs[i]].val

\* C1: once train_test_split has returned, the training and test subsets are
\* disjoint, together they hold every row the split was given exactly once,
\* and X_train/y_train and X_test/y_test hold the same rows position by position.
C1_SplitPartitions ==
  SplitDone =>
    /\ TrainIds \cap TestIds = {}
    /\ TrainIds \cup TestIds = GivenRows
    /\ NoRepeats(X_train) /\ NoRepeats(X_test)
    /\ Pairwise(X_train, y_train)
    /\ Pairwise(X_test, y_test)

C1_Witness ==
  /\ script = 204 /\ SplitDone
  /\ GivenRows # FileIds
  /\ Len(X_test) = 2 /\ Len(X_train) >= 4

----------------------------------------------------------------------------
FitIdx == CallIdx({"fit"})
ShownOps == {"confusion_matrix", "print", "plot_conf_matrix", "accuracy_score",
             "precision_score", "recall_score", "f1_score", "plot_depths", "plot_tree"}

\* C2 (as stated): over a complete run exactly one classifier is fitted and
\* every metric printed or plotted is that classifier's.
C2_OneModelFitted ==
  status = "done" =>
    /\ Cardinality(FitIdx) = 1
    /\ \A i \in CallIdx(ShownOps) : \A j \in FitIdx : calls[i].models = {calls[j].obj}

\* the fit calls of the run, in order
Fits == SelectSeq(calls, LAMBDA c : c.op = "fit")
SearchFits == RangeHi - RangeLo

\* C2 (amended): a complete run of script 201 fits exactly one classifier, whose
\* metrics are the ones shown.  A complete run of script 204 fits 15 trees, each
\* a new object: first the tree of max_depth 5, whose confusion matrix, accuracy,
\* precision, recall and F1 are computed, then the trees of max_depth 1..14,
\* whose F1 scores are plotted by depth; the tree drawn by plot_tree is the
\* last of them (max_depth 14).
C2_FitsPerScript ==
  status = "done" =>
    LET fits == Fits IN
    IF script = 201
    THEN /\ Len(fits) = 1
         /\ \A i \in CallIdx(ShownOps) : calls[i].models = {fits[1].obj}
    ELSE /\ Len(fits) = 1 + SearchFits
         /\ \A k \in 1..(1 + SearchFits) : fits[k].obj = k
         /\ fits[1].max_depth = FirstDepth
         /\ \A k \in 1..SearchFits : fits[1 + k].max_depth = RangeLo + k - 1
         /\ \A i \in CallIdx({"confusion_matrix", "plot_conf_matrix", "accuracy_score",
                              "precision_score", "recall_score"}) : calls[i].models = {1}
         /\ {calls[i].models : i \in CallIdx({"f1_score"})}
               = {{k} : k \in 1..(1 + SearchFits)}
         /\ \A i \in CallIdx({"plot_depths"}) : calls[i].models = 2..(1 + SearchFits)
         /\ \A i \in CallIdx({"plot_tree"}) :
              /\ calls[i].models = {1 + SearchFits}
              /\ calls[i].max_depth = RangeHi - 1
         /\ CallIdx({"plot_depths"}) # {} /\ CallIdx({"plot_tree"}) # {}

C2_Witness == status = "done" /\ script = 204 /\ n_clf = 1 + SearchFits

----------------------------------------------------------------------------
\* the steps of the run in order, consecutive calls of one step merged
RECURSIVE Steps(_, _)
Steps(k, acc) ==
  IF k > Len(calls) THEN acc
  ELSE Steps(k + 1, IF acc # <<>> /\ acc[Len(acc)] = calls[k].phase
                    THEN acc ELSE Append(acc, calls[k].phase))

RECURSIVE Repeat(_, _)
Repeat(s, n) == IF n = 0 THEN <<>> ELSE s \o Repeat(s, n - 1)

IsPrefix(a, b) == Len(a) <= Len(b) /\ \A i \in 1..Len(a) : a[i] = b[i]

FitOps == {"fit", "ohe_fit_transform"}
TestOps == {"predict", "predict_proba", "confusion_matrix", "accuracy_score",
            "precision_score", "recall_score", "f1_score"}

\* every fit call takes training rows only, every predict and metric call test rows only
RolesKept ==
  /\ \A i \in CallIdx(FitOps) : calls[i].rows # {} /\ calls[i].rows \subseteq TrainIds
  /\ \A i \in CallIdx(TestOps) : calls[i].rows # {} /\ calls[i].rows \subseteq TestIds

\* each predict on a classifier follows that classifier's fit
PredictAfterFit ==
  \A i \in CallIdx({"predict", "predict_proba"}) :
    \E j \in FitIdx : j < i /\ calls[j].obj = calls[i].obj

\* no fitted object was computed from a test row
ModelsUntouched ==
  /\ deps["clf"].rows \cap TestIds = {}
  /\ deps["ohe_enc"].rows \cap TestIds = {}

\* C3 (as stated): in a complete run the steps are read, split, fit, score,
\* plot in that order; fits see training rows only, predictions and metrics
\* test rows only, each predict follows its fit, and no test row influences a
\* fitted model or a choice among models.
C3_OrderAndRoles ==
  status = "done" =>
    /\ Steps(1, <<>>) = <<"read", "split", "fit", "score", "plot">>
    /\ RolesKept
    /\ PredictAfterFit
    /\ ModelsUntouched
    /\ deps["optimal_depth"].rows \cap TestIds = {}

ExpectedSteps ==
  IF script = 201 THEN <<"read", "split", "fit", "score", "plot">>
  ELSE <<"read", "split", "fit", "score", "plot", "score">>
         \o Repeat(<<"fit", "score">>, SearchFits) \o <<"plot">>

\* C3 (amended): script 201 runs read, split, fit, score, plot; script 204 runs
\* read, split, fit, score, plot, score, then 14 times fit and score, then
\* plot.  In both, fits see training rows only, predictions and metrics test
\* rows only, each predict follows its classifier's fit, and no test row
\* influences a fitted model; but in script 204 the choice among the 14 trees
\* (optimal_depth) is computed from the labels of every test row.  The calls
\* of a run are read off the log when the run has ended, normally or by an
\* exception.
C3_OrderAndRolesPerScript ==
  /\ ModelsUntouched
  /\ (script = 204 /\ optimal_depth # 0) => TestIds \subseteq deps["optimal_depth"].rows
  /\ status # "running" =>
       /\ IsPrefix(Steps(1, <<>>), ExpectedSteps)
       /\ status = "done" => Steps(1, <<>>) = ExpectedSteps
       /\ RolesKept
       /\ PredictAfterFit

C3_Witness == status = "done" /\ script = 204 /\ optimal_depth > 1

----------------------------------------------------------------------------
\* the predictions the confusion matrix and the metrics are computed from
Predicted == IF script = 201 THEN y_pred ELSE y_pred_class
Actual == Values(y_test)
TestPos == 1..Len(y_test)

\* number of test rows of actual class a and predicted class b
Rows(a, b) == Cardinality({r \in TestPos : Actual[r] = a /\ Predicted[r] = b})

MatrixLabels == SortedSeq(Range(Actual) \cup Range(Predicted))

RECURSIVE SumCells(_)
SumCells(S) ==
  IF S = {} THEN 0
  ELSE LET ij == CHOOSE ij \in S : TRUE IN conf_matrix[ij] + SumCells(S \ {ij})

----------------------------------------------------------------------------
Diagonal == {ij \in DOMAIN conf_matrix : ij[1] = ij[2]}

\* C5: the accuracy is the sum of the diagonal of conf_matrix divided by the
\* number of test rows.
C5_AccuracyIsDiagonal ==
  (conf_matrix # None /\ scores["accuracy_score"] # None) =>
    /\ Len(y_test) > 0
    /\ scores["accuracy_score"][2] > 0
    /\ scores["accuracy_score"][1] * Len(y_test)
         = SumCells(Diagonal) * scores["accuracy_score"][2]

C5_Witness ==
  /\ conf_matrix # None /\ scores["accuracy_score"] = <<1, 2>>
  /\ script = 201 /\ status = "done"

----------------------------------------------------------------------------
\* a cell of the binary confusion matrix, by class; 0 when the class has no
\* row or column in the matrix
Cell(a, b) ==
  LET labs == MatrixLabels
  IN IF a \in Range(labs) /\ b \in Range(labs)
     THEN conf_matrix[<<IndexOf(labs, a), IndexOf(labs, b)>>]
     ELSE 0
NegLabel == CHOOSE c \in Classes : c # PosLabel
CellTP == Cell(PosLabel, PosLabel)
CellFP == Cell(NegLabel, PosLabel)
CellFN == Cell(PosLabel, NegLabel)

MetricsDone ==
  /\ script = 204 /\ conf_matrix # None
  /\ \A m \in DOMAIN scores : scores[m] # None

\* q is the quotient n / d
IsQuotient(q, n, d) == d # 0 /\ q[2] > 0 /\ q[1] * d = n * q[2]

\* f is the harmonic mean 2pr / (p + r) of the fractions p and r
IsHarmonicMean(f, p, r) ==
  /\ p[1] * r[2] + r[1] * p[2] # 0
  /\ f[2] > 0
  /\ f[1] * (p[1] * r[2] + r[1] * p[2]) = 2 * p[1] * r[1] * f[2]

\* C6 (as stated): for every test outcome precision = TP / (TP + FP),
\* recall = TP / (TP + FN) and F1 = 2 TP / (2 TP + FP + FN) is the harmonic
\* mean of that precision and recall.
C6_MetricQuotients ==
  MetricsDone =>
    LET tp == CellTP
        fp == CellFP
        fn == CellFN
    IN
    /\ IsQuotient(scores["precision_score"], tp, tp + fp)
    /\ IsQuotient(scores["recall_score"], tp, tp + fn)
    /\ IsQuotient(scores["f1_score"], 2 * tp, 2 * tp + fp + fn)
    /\ IsHarmonicMean(scores["f1_score"], scores["precision_score"], scores["recall_score"])

\* C6 (amended): precision = TP / (TP + FP) when some row is predicted positive
\* and 0.0 otherwise; recall = TP / (TP + FN) when some row is actually positive
\* and 0.0 otherwise; F1 = 2 TP / (2 TP + FP + FN) when that denominator is not
\* 0 and 0.0 otherwise; F1 is the harmonic mean of precision and recall when
\* TP > 0, and 0.0 when TP = 0.
C6_MetricQuotientsOrZero ==
  MetricsDone =>
    LET tp == CellTP
        fp == CellFP
        fn == CellFN
    IN
    /\ IF tp + fp # 0
       THEN IsQuotient(scores["precision_score"], tp, tp + fp)
       ELSE scores["precision_score"] = <<0, 1>>
    /\ IF tp + fn # 0
       THEN IsQuotient(scores["recall_score"], tp, tp + fn)
       ELSE scores["recall_score"] = <<0, 1>>
    /\ IF 2 * tp + fp + fn # 0
       THEN IsQuotient(scores["f1_score"], 2 * tp, 2 * tp + fp + fn)
       ELSE scores["f1_score"] = <<0, 1>>
    /\ IF tp > 0
       THEN IsHarmonicMean(scores["f1_score"], scores["precision_score"],
                           scores["recall_score"])
       ELSE scores["f1_score"] = <<0, 1>>

\* no test row is actually positive, and one is predicted positive
C6_Witness ==
  /\ MetricsDone
  /\ CellTP + CellFN = 0 /\ CellFP = 1

C6_WitnessNonePredicted ==
  /\ MetricsDone
  /\ CellTP + CellFP = 0 /\ CellFN = 1

C6_WitnessRegular ==
  /\ MetricsDone
  /\ CellTP = 1 /\ CellFP = 1 /\ CellFN = 0

----------------------------------------------------------------------------
SearchDone == script = 204 /\ optimal_depth # 0

\* the F1 score of the predictions v on the test rows, from the row sets
ScoreOf(v) ==
  LET tp == Cardinality({r \in TestPos : Actual[r] = PosLabel /\ v[r] = PosLabel})
      fp == Cardinality({r \in TestPos : Actual[r] # PosLabel /\ v[r] = PosLabel})
      fn == Cardinality({r \in TestPos : Actual[r] = PosLabel /\ v[r] # PosLabel})
  IN IF 2 * tp + fp + fn = 0 THEN <<0, 1>> ELSE Frac(2 * tp, 2 * tp + fp + fn)

\* the F1 calls of the run, in order (the first is line 117, the others the loop's)
F1Calls == SelectSeq(calls, LAMBDA c : c.op = "f1_score")

Less(a, b) == a[1] * b[2] < b[1] * a[2]

\* C7: when the search ends accuracy_scores has 14 entries, entry k (from 0) the
\* test-set F1 score of the tree fitted with max_depth k + 1; max_accuracy is
\* the largest entry; optimal_depth is in 1..14, its score is max_accuracy, and
\* every smaller depth scores strictly less.
C7_OptimalDepth ==
  SearchDone =>
    /\ Len(accuracy_scores) = RangeHi - RangeLo
    /\ LET fits == Fits
           f1s  == F1Calls
       IN \A k \in 0..(RangeHi - RangeLo - 1) :
            /\ accuracy_scores[k + 1] = ScoreOf(tree_of[Min(k + 1, MaxGrow)])
            /\ fits[k + 2].max_depth = k + 1
            /\ f1s[k + 2].models = {fits[k + 2].obj}
            /\ f1s[k + 2].rows = TestIds
    /\ \A k \in 1..Len(accuracy_scores) : ~Less(max_accuracy, accuracy_scores[k])
    /\ optimal_depth \in RangeLo..(RangeHi - 1)
    /\ accuracy_scores[optimal_depth] = max_accuracy
    /\ \A d \in 1..(optimal_depth - 1) : Less(accuracy_scores[d], max_accuracy)

\* the maximum is reached at depth 2 and again at deeper trees
C7_Witness ==
  /\ SearchDone /\ status = "done"
  /\ optimal_depth = 2
  /\ accuracy_scores[3] = max_accuracy
  /\ Less(accuracy_scores[1], max_accuracy)

====
